---- MODULE Spec2Model ----
(***************************************************************************)
(* Model of the resume analyzer (src/app.py): the pure analysis functions  *)
(* (extract_skills, calculate_ats_score, calculate_job_match,              *)
(* get_missing_skills, get_suggestions), the scores table built by         *)
(* generate_pdf_report, and the two request handlers index and             *)
(* download_report.                                                        *)
(*                                                                         *)
(* Text is a TLA+ string.  TLA+ strings are ASCII, so the one non-ASCII    *)
(* code point the model uses, U+FB02 (LATIN SMALL LIGATURE FL, which PDF   *)
(* text extraction produces for typeset "fl"), is written as the reserved  *)
(* character LigFL; no other text of the model contains that character.    *)
(***************************************************************************)
EXTENDS Integers, Sequences, FiniteSets, TLC

VARIABLES method, resume_file, job_desc, hashseed, data, form, score_data, pc

vars == <<method, resume_file, job_desc, hashseed, data, form, score_data, pc>>

(***************************************************************************)
(* Python values.                                                          *)
(***************************************************************************)
\* An optional value: None is the empty sequence, a present value v is <<v>>.
None == <<>>

Some(v) == <<v>>

\* The empty dict {} ; a dict is a function from its keys.
EmptyDict == [k \in {} |-> None]

\* d[k] = v on a dict.
SetItem(d, k, v) == (k :> v) @@ d

\* "".join(parts)
RECURSIVE Concat(_)
Concat(parts) ==
    IF parts = <<>> THEN "" ELSE Head(parts) \o Concat(Tail(parts))

\* sep.join(parts)
RECURSIVE Join(_, _)
Join(sep, parts) ==
    IF parts = <<>> THEN ""
    ELSE IF Len(parts) = 1 THEN parts[1]
    ELSE parts[1] \o sep \o Join(sep, Tail(parts))

\* s * n
RECURSIVE Repeat(_, _)
Repeat(s, n) == IF n = 0 THEN "" ELSE s \o Repeat(s, n - 1)

\* seq[:n]
Take(seq, n) == SubSeq(seq, 1, IF Len(seq) < n THEN Len(seq) ELSE n)

\* min(a, b)
Min(a, b) == IF a < b THEN a ELSE b

(***************************************************************************)
(* str.lower(), str.upper(), the `in` operator on strings, str.count().    *)
(***************************************************************************)
\* U+FB02, the fl ligature (see the header).
LigFL == "|"

UpperLetters == "ABCDEFGHIJKLMNOPQRSTUVWXYZ"

LowerLetters == "abcdefghijklmnopqrstuvwxyz"

\* Unicode simple/special lower-case mapping, per character: an upper-case
\* letter maps to its lower-case letter, every other character of the model
\* (U+FB02 included) to itself.
LowerMap ==
    [c \in {SubSeq(UpperLetters, i, i) : i \in 1..26} |->
        LET i == CHOOSE j \in 1..26 : SubSeq(UpperLetters, j, j) = c
        IN  SubSeq(LowerLetters, i, i)]

\* Unicode upper-case mapping, per character: a lower-case letter maps to its
\* upper-case letter and U+FB02 to the two letters "FL" (SpecialCasing).
UpperMap ==
    [c \in {SubSeq(LowerLetters, i, i) : i \in 1..26} \cup {LigFL} |->
        IF c = LigFL THEN "FL"
        ELSE LET i == CHOOSE j \in 1..26 : SubSeq(LowerLetters, j, j) = c
             IN  SubSeq(UpperLetters, i, i)]

\* A per-character mapping applied to a whole string.
RECURSIVE MapChars(_, _)
MapChars(m, s) ==
    IF Len(s) = 0 THEN ""
    ELSE IF Len(s) = 1 THEN (IF s \in DOMAIN m THEN m[s] ELSE s)
    ELSE LET h == Len(s) \div 2
         IN  MapChars(m, SubSeq(s, 1, h)) \o MapChars(m, SubSeq(s, h + 1, Len(s)))

\* s.lower()
Lower(s) == MapChars(LowerMap, s)

\* s.upper()
Upper(s) == MapChars(UpperMap, s)

\* needle in hay
Contains(hay, needle) ==
    \E i \in 1..(Len(hay) - Len(needle) + 1) :
        SubSeq(hay, i, i + Len(needle) - 1) = needle

\* s.count(c) for a one-character c
Count(s, c) == Cardinality({i \in 1..Len(s) : SubSeq(s, i, i) = c})

(***************************************************************************)
(* Hash randomisation.  list(set(...)) lists a set of strings in the order *)
(* of the set's hash table, which depends on the string hashes, and those  *)
(* are salted per interpreter process (PYTHONHASHSEED is not set by the    *)
(* program).  The order is therefore a choice the process makes at start;  *)
(* hashseed stands for it and HashRank gives the iteration order under it. *)
(***************************************************************************)
\* The skills list of extract_skills.
SKILLS ==
    << "Python", "JavaScript", "Java", "C++", "C#", "Ruby", "PHP", "Swift",
       "React", "Angular", "Vue", "Django", "Flask", "Node.js", "Express",
       "SQL", "MySQL", "MongoDB", "PostgreSQL", "Docker", "Kubernetes",
       "AWS", "Azure", "GCP", "Git", "Linux", "HTML", "CSS",
       "REST API", "GraphQL", "Machine Learning", "AI", "Data Analysis",
       "Agile", "Scrum", "Project Management", "Leadership", "Communication",
       "Problem Solving", "Teamwork", "Critical Thinking", "Time Management" >>

Vocabulary == {SKILLS[i] : i \in DOMAIN SKILLS}

SkillIndex == [s \in Vocabulary |-> CHOOSE i \in DOMAIN SKILLS : SKILLS[i] = s]

\* A modulus above the vocabulary size, prime, so that multiplying by a seed
\* in 1..HashPrime-1 permutes the indices.
HashPrime == Len(SKILLS) + 1

HashRank(s) == (SkillIndex[s] * hashseed) % HashPrime

\* list(S) for a set S of vocabulary strings, in this process's hash order.
RECURSIVE ListOfSet(_)
ListOfSet(S) ==
    IF S = {} THEN <<>>
    ELSE LET first == CHOOSE s \in S : \A t \in S : HashRank(s) <= HashRank(t)
         IN  <<first>> \o ListOfSet(S \ {first})

\* set(list)
SetOfList(l) == {l[i] : i \in DOMAIN l}

(***************************************************************************)
(* The analysis functions.                                                 *)
(***************************************************************************)
\* extract_skills: the vocabulary terms whose lower-cased form is a substring
\* of the lower-cased text, as list(set(...)).
extract_skills(text) ==
    LET lt == Lower(text)
    IN  ListOfSet({SKILLS[i] : i \in {j \in DOMAIN SKILLS : Contains(lt, Lower(SKILLS[j]))}})

\* The checks list of calculate_ats_score.
checks ==
    << <<"email", 5>>, <<"phone", 5>>, <<"experience", 10>>,
       <<"education", 10>>, <<"skills", 10>>, <<"project", 5>> >>

\* The loop of calculate_ats_score over checks[i..], from the running score.
RECURSIVE ScoreLoop(_, _, _)
ScoreLoop(lt, i, score) ==
    IF i > Len(checks) THEN score
    ELSE ScoreLoop(lt, i + 1,
                   IF Contains(lt, checks[i][1]) THEN score + checks[i][2] ELSE score)

BaseScore == 50

LengthBonusOver == 500

\* Mutant: the keywords are looked up in the text as given, not lower-cased.
calculate_ats_score_cased(text) ==
    LET looped == ScoreLoop(text, 1, BaseScore)
        score  == IF Len(text) > LengthBonusOver THEN looped + 5 ELSE looped
    IN  Min(score, 100)

calculate_ats_score(text) ==
    LET looped == ScoreLoop(Lower(text), 1, BaseScore)
        score  == IF Len(text) > LengthBonusOver THEN looped + 5 ELSE looped
    IN  Min(score, 100)

\* Mutant: the percentage is rounded up instead of truncated.
calculate_job_match_ceil(resume_text, job_text) ==
    LET resume_skills == SetOfList(extract_skills(resume_text))
        job_skills    == SetOfList(extract_skills(job_text))
        matched       == Cardinality(resume_skills \cap job_skills)
        n             == Cardinality(job_skills)
    IN  IF job_skills = {} THEN 50
        ELSE Min((matched * 100 + n - 1) \div n, 100)

\* Mutant: an empty job skill set counts as nothing matched.
calculate_job_match_zero(resume_text, job_text) ==
    LET resume_skills == SetOfList(extract_skills(resume_text))
        job_skills    == SetOfList(extract_skills(job_text))
        matched       == Cardinality(resume_skills \cap job_skills)
    IN  IF job_skills = {} THEN 0
        ELSE Min((matched * 100) \div Cardinality(job_skills), 100)

\* calculate_job_match.  The code computes int((matched / len(job_skills)) * 100)
\* in double precision; for 0 <= matched <= len(job_skills) <= 42 (the
\* vocabulary size) the double result truncates to the exact quotient
\* (matched * 100) \div len(job_skills), which is what is written here.
calculate_job_match(resume_text, job_text) ==
    LET resume_skills == SetOfList(extract_skills(resume_text))
        job_skills    == SetOfList(extract_skills(job_text))
        matched       == Cardinality(resume_skills \cap job_skills)
    IN  IF job_skills = {} THEN 50
        ELSE Min((matched * 100) \div Cardinality(job_skills), 100)

\* Mutant: the difference is taken the other way round.
get_missing_skills_swapped(resume_text, job_text) ==
    ListOfSet(SetOfList(extract_skills(resume_text)) \ SetOfList(extract_skills(job_text)))

get_missing_skills(resume_text, job_text) ==
    ListOfSet(SetOfList(extract_skills(job_text)) \ SetOfList(extract_skills(resume_text)))

TooShortMsg == "Resume is too short. Add more details about your experience and achievements."

AchievementsMsg == "Include quantifiable achievements with specific metrics (e.g., 'Increased sales by 30%')."

ResponsibilitiesMsg == "Highlight your key responsibilities and contributions in each role."

FormattingMsg == "Use better formatting with clear sections and bullet points for readability."

MissingMsgPrefix == "Consider adding these skills from the job description: "

ActionVerbsMsg == "Start bullet points with strong action verbs: Developed, Implemented, Led, Managed, Achieved."

CertificationsMsg == "Include relevant certifications, awards, and professional development."

ActionVerbs == {"developed", "implemented", "led", "managed"}

ShortBelow == 300

MinNewlines == 5

\* suggestions.append(msg) if cond
AppendIf(cond, suggestions, msg) == IF cond THEN Append(suggestions, msg) ELSE suggestions

\* The suggestions list of get_suggestions once every rule has run.
AllSuggestions(resume_text, job_text) ==
    LET rl == Lower(resume_text)
        s1 == AppendIf(Len(resume_text) < ShortBelow, <<>>, TooShortMsg)
        s2 == AppendIf(~Contains(rl, "achievement") /\ ~Contains(rl, "accomplished"),
                       s1, AchievementsMsg)
        s3 == AppendIf(~Contains(rl, "responsibility") /\ ~Contains(rl, "responsible"),
                       s2, ResponsibilitiesMsg)
        s4 == AppendIf(Count(resume_text, "\n") < MinNewlines, s3, FormattingMsg)
        missing == get_missing_skills(resume_text, job_text)
        s5 == AppendIf(missing # <<>>, s4, MissingMsgPrefix \o Join(", ", Take(missing, 3)))
        s6 == AppendIf(~\E verb \in ActionVerbs : Contains(rl, verb), s5, ActionVerbsMsg)
        s7 == Append(s6, CertificationsMsg)
    IN  s7

\* Mutant: the list is returned whole.
get_suggestions_uncut(resume_text, job_text) == AllSuggestions(resume_text, job_text)

get_suggestions(resume_text, job_text) == Take(AllSuggestions(resume_text, job_text), 6)

(***************************************************************************)
(* The index handler.                                                      *)
(***************************************************************************)
\* extract_text_from_pdf raises when PdfReader cannot parse the upload.
PdfRaises(file) == ~file.valid

\* extract_text_from_pdf on a parseable upload: the page texts joined by "".
extract_text_from_pdf(file) == Concat(file.pages)

\* bool(resume_file): request.files.get gives None when the field is absent,
\* and a FileStorage is falsy when its filename is empty.
FileTruthy(file) == file # None /\ file[1].filename # ""

Whitespace == {" ", "\n", "\t", "\r"}

\* s.strip()
RECURSIVE Strip(_)
Strip(s) ==
    IF Len(s) = 0 THEN s
    ELSE IF SubSeq(s, 1, 1) \in Whitespace THEN Strip(SubSeq(s, 2, Len(s)))
    ELSE IF SubSeq(s, Len(s), Len(s)) \in Whitespace THEN Strip(SubSeq(s, 1, Len(s) - 1))
    ELSE s

\* job_desc or ""
OrEmpty(jd) == IF jd = None \/ jd = Some("") THEN "" ELSE jd[1]

\* Mutant: only a missing field counts as no job description.
JobDescGiven_present(jd) == jd # None

\* bool(job_desc and job_desc.strip())
JobDescGiven(jd) == jd # None /\ jd # Some("") /\ Strip(jd[1]) # ""

ErrorMsg == "Error processing your resume. Please ensure it's a valid PDF file."

\* The calls of the try block of index, in order; an exception raised in one of
\* them leaves data as the assignments before it made it.
Steps ==
    << "extract_text_from_pdf", "calculate_ats_score", "extract_skills",
       "get_suggestions", "calculate_job_match", "get_missing_skills" >>

\* The step an exception is raised in, or "none".
Faults == {"none"} \cup {Steps[i] : i \in DOMAIN Steps}

\* data along the try block when nothing raises: TryStates(file, jd)[k + 1] is
\* data once the first k assignments are done.
TryStates(file, jd) ==
    LET text == extract_text_from_pdf(file)
        d1 == SetItem(EmptyDict, "resume_text", text)
        d2 == SetItem(d1, "ats_score", calculate_ats_score(text))
        d3 == SetItem(d2, "skills", extract_skills(text))
        d4 == SetItem(d3, "feedback", get_suggestions(text, OrEmpty(jd)))
        d5 == IF JobDescGiven(jd)
              THEN SetItem(d4, "job_match", calculate_job_match(text, jd[1]))
              ELSE d4
        d6 == IF JobDescGiven(jd)
              THEN SetItem(d5, "missing_skills", get_missing_skills(text, jd[1]))
              ELSE d5
    IN  <<EmptyDict, d1, d2, d3, d4, d5, d6>>

\* The except clause: data["error"] = ... on whatever data holds by then.
Except(d) == SetItem(d, "error", ErrorMsg)

\* The step of the try block that raises (0: none does): the extraction of an
\* unparseable upload, else the faulty step if the handler reaches it (steps 5
\* and 6 run only under `if job_desc and job_desc.strip()`).
RaisedAt(file, jd, fault) ==
    IF PdfRaises(file) THEN 1
    ELSE IF fault = "none" THEN 0
    ELSE LET k == CHOOSE i \in DOMAIN Steps : Steps[i] = fault
         IN  IF k >= 5 /\ ~JobDescGiven(jd) THEN 0 ELSE k

\* The data dicts index can hand to render_template for a request: the try
\* block runs up to the step that raises, if one does, and the view gets data
\* as it is then.  One dict per fault.
IndexData(m, file, jd) ==
    IF m = "POST" /\ FileTruthy(file)
    THEN LET run == TryStates(file[1], jd)
         IN  [fault \in Faults |->
                LET k == RaisedAt(file[1], jd, fault)
                IN  IF k = 0 THEN run[Len(Steps) + 1] ELSE Except(run[k])]
    ELSE [fault \in Faults |-> EmptyDict]

\* GET / or POST / : one request served by index.  The client sends its
\* request again after a rendered result, and stops at the first error page.
index ==
    /\ form = None
    /\ pc \in {"start", "rendered"}
    /\ data' \in (LET outcome == IndexData(method, resume_file, job_desc)
                 IN  {outcome[fault] : fault \in Faults})
    /\ pc' = IF "error" \in DOMAIN data' THEN "failed" ELSE "rendered"
    /\ UNCHANGED <<method, resume_file, job_desc, hashseed, form, score_data>>

(***************************************************************************)
(* The report: the scores table of generate_pdf_report, and the            *)
(* download_report handler that feeds it the resubmitted form fields.      *)
(***************************************************************************)
\* Mutant: the field is tested as the number it spells, so "0" is falsy.
StrTruthy_numeric(v) == v \notin {None, Some(""), Some("0")}

\* bool(v) for what request.form.get returns: None, or a string, which is
\* truthy unless empty.
StrTruthy(v) == v # None /\ v # Some("")

\* score_data of generate_pdf_report.  Every value arrives as form text
\* (ats_score as the text of the default 0 when the field is absent), and
\* f"{value}%" appends the percent sign to it.
generate_pdf_report(d) ==
    LET head == << <<"Metric", "Score">>, <<"ATS Score", d.ats_score \o "%">> >>
    IN  IF StrTruthy(d.job_match)
        THEN Append(head, <<"Job Match", d.job_match[1] \o "%">>)
        ELSE head

\* The data dict download_report builds from request.form.
FormData(f) ==
    [ ats_score |-> IF f.ats_score = None THEN ToString(0) ELSE f.ats_score[1],
      job_match |-> f.job_match ]

\* POST /download-report
download_report ==
    /\ form # None
    /\ pc = "start"
    /\ score_data' = generate_pdf_report(FormData(form[1]))
    /\ pc' = "downloaded"
    /\ UNCHANGED <<method, resume_file, job_desc, hashseed, data, form>>

(***************************************************************************)
(* The server process.                                                     *)
(***************************************************************************)
NumSeeds == 2

Seeds == 1..NumSeeds

\* The server process is started again between two requests (app.run); the
\* new interpreter draws another hash seed.
Restart ==
    /\ pc = "rendered"
    /\ \E h \in Seeds \ {hashseed} : hashseed' = h
    /\ UNCHANGED <<method, resume_file, job_desc, data, form, score_data, pc>>

(***************************************************************************)
(* The requests the model sends.                                           *)
(***************************************************************************)
\* Page texts of the uploaded resumes; an upload holds a selection of the
\* first NumPages of them, in this order.
PageList ==
    << Repeat("lorem ipsum dolor sit amet eu. ", 9) \o "lorem ipsum dolores.\n",
       "Email: ann@b.com; Phone: 555-1234\n",
       "EXPERIENCE\nLed a team, developed tools in PYTHON and MySQL.\nNode",
       ".js, React, Java, " \o LigFL \o "ask.\nEducation: BSc in Physics\nSkills:\nProjects: managed achievements, responsible.\n",
       "Docker, AWS, Git, SQL\n\n\n",
       "Kubernetes\n" >>

NumPages == 4

\* The pages of PageList whose index is in sel, in order.
RECURSIVE Select(_, _)
Select(sel, i) ==
    IF i > Len(PageList) THEN <<>>
    ELSE (IF i \in sel THEN <<PageList[i]>> ELSE <<>>) \o Select(sel, i + 1)

Uploads ==
    { None,
      Some([filename |-> "", valid |-> FALSE, pages |-> <<>>]),
      Some([filename |-> "notes.txt", valid |-> FALSE, pages |-> <<>>]) }
    \cup { Some([filename |-> "cv.pdf", valid |-> TRUE, pages |-> Select(sel, 1)]) :
             sel \in SUBSET (1..NumPages) }

\* Job description form values; the model sends the first NumJobs of them.
JobList ==
    << None,
       Some(""),
       Some(" \n "),
       Some("Python, Java and SQL"),
       Some("No special requirements"),
       Some("Seeking SQL, Docker, AWS, React and Flask skills"),
       Some("JAVASCRIPT developer"),
       Some("html/css") >>

NumJobs == 6

JobDescs == {JobList[i] : i \in 1..NumJobs}

\* Resubmitted score fields of the report form.
AtsFields == {None, Some("0"), Some("65"), Some("100")}

JobMatchFields == {None, Some("")} \cup {Some(ToString(n)) : n \in 0..100}

Init ==
    /\ hashseed \in Seeds
    /\ data = EmptyDict
    /\ score_data = <<>>
    /\ pc = "start"
    /\ \/ /\ method = "GET"
          /\ resume_file = None
          /\ job_desc = None
          /\ form = None
       \/ /\ method = "POST"
          /\ resume_file \in Uploads
          /\ job_desc \in JobDescs
          /\ form = None
       \/ /\ method = "POST"
          /\ resume_file = None
          /\ job_desc = None
          /\ form \in {Some([ats_score |-> a, job_match |-> j]) :
                         a \in AtsFields, j \in JobMatchFields}

Next == index \/ download_report \/ Restart

Spec == Init /\ [][Next]_vars

(***************************************************************************)
(* What the specification says, written independently of the functions     *)
(* above.                                                                  *)
(***************************************************************************)
\* The Skill Detector of the specification: the vocabulary terms that occur
\* in the text, compared case-insensitively as substrings.
Detected(text) ==
    LET lt == Lower(text) IN {s \in Vocabulary : Contains(lt, Lower(s))}

\* The skills this request's analysis detected in the resume.
ResumeSkills == SetOfList(data.skills)

\* The skills of the job description this request carries.
JobSkills == Detected(OrEmpty(job_desc))

\* C1: if extraction or any later analysis step fails, the result bundle holds
\* only the error message: no analysis field is populated, whichever step
\* failed.
C1_ErrorOnly == ("error" \in DOMAIN data) => DOMAIN data = {"error"}

\* C2: with a non-empty job skill set the job match is
\* floor(100 * |resumeSkills \cap jobSkills| / |jobSkills|); it is 100 when the
\* resume skills include the job skills, and never above 100.
C2_JobMatchFormula ==
    ("job_match" \in DOMAIN data /\ JobSkills # {}) =>
        LET matched == Cardinality(ResumeSkills \cap JobSkills)
            n       == Cardinality(JobSkills)
        IN  /\ \E q \in 0..100 :
                 /\ q * n <= 100 * matched
                 /\ 100 * matched < (q + 1) * n
                 /\ data.job_match = q
            /\ (JobSkills \subseteq ResumeSkills => data.job_match = 100)
            /\ data.job_match <= 100

C2_Witness ==
    /\ "job_match" \in DOMAIN data
    /\ Cardinality(JobSkills) = 3
    /\ data.job_match = 66

\* C3: the job match is exactly 50 when the job description yields no detected
\* skill, whatever the resume contains.
C3_NeutralScore ==
    ("job_match" \in DOMAIN data /\ JobSkills = {}) => data.job_match = 50

C3_Witness ==
    /\ "job_match" \in DOMAIN data
    /\ JobSkills = {}
    /\ Cardinality(ResumeSkills) >= 2

\* C4: the ATS score is 50 plus the points (5,5,10,10,10,5) of those of email,
\* phone, experience, education, skills, project that occur in the lower-cased
\* text, plus 5 if the text is longer than 500 characters, capped at 100; it
\* lies in 50..100, and is exactly 100 for a text longer than 500 characters
\* that holds all six keywords.
C4_Points ==
    [k \in {"email", "phone", "experience", "education", "skills", "project"} |->
        IF k \in {"email", "phone", "project"} THEN 5 ELSE 10]

RECURSIVE C4_Sum(_, _)
C4_Sum(f, S) ==
    IF S = {} THEN 0
    ELSE LET k == CHOOSE x \in S : TRUE IN f[k] + C4_Sum(f, S \ {k})

C4_AtsScore ==
    ("ats_score" \in DOMAIN data) =>
        LET text  == data.resume_text
            lt    == Lower(text)
            found == {k \in DOMAIN C4_Points : Contains(lt, k)}
            total == 50 + C4_Sum(C4_Points, found) + (IF Len(text) > 500 THEN 5 ELSE 0)
        IN  /\ data.ats_score = (IF total > 100 THEN 100 ELSE total)
            /\ data.ats_score \in 50..100
            /\ (found = DOMAIN C4_Points /\ Len(text) > 500 => data.ats_score = 100)

C4_Witness ==
    /\ "ats_score" \in DOMAIN data
    /\ Len(data.resume_text) > 500
    /\ data.ats_score = 100

\* C5: get_suggestions is deterministic: two calls with the same resume text
\* and job description return the same ordered list of suggestion strings.
\* (The request a behaviour replays never changes, so two consecutive
\* successful responses are two calls with the same inputs.)
C5_Deterministic ==
    [][(pc = "rendered" /\ pc' = "rendered" /\ "feedback" \in DOMAIN data)
          => data'.feedback = data.feedback]_vars

\* C6: given an empty job description (or none), a successful analysis has
\* neither job_match nor missing_skills, while ats_score, skills and feedback
\* are produced; the Matcher is not invoked, so it cannot fail the request.
C6_EmptyJobDesc ==
    (method = "POST" /\ FileTruthy(resume_file) /\ job_desc \in {None, Some("")}) =>
        /\ pc = "rendered" =>
             /\ "job_match" \notin DOMAIN data
             /\ "missing_skills" \notin DOMAIN data
             /\ {"ats_score", "skills", "feedback"} \subseteq DOMAIN data
        /\ pc = "start" /\ ~PdfRaises(resume_file[1]) =>
             LET outcome == IndexData(method, resume_file, job_desc)
             IN  outcome["calculate_job_match"] = outcome["none"]

C6_Witness ==
    /\ pc = "rendered"
    /\ job_desc = Some("")
    /\ "skills" \in DOMAIN data
    /\ data.skills # <<>>

C8_CaseInsensitive ==
    ("skills" \in DOMAIN data) =>
        /\ ResumeSkills = SetOfList(extract_skills(Upper(data.resume_text)))
        /\ ResumeSkills \subseteq Vocabulary
        /\ Cardinality(ResumeSkills) = Len(data.skills)

\* Rule i of the specification fires on the text (rl: the text lower-cased)
\* with these missing skills.
C9_Fires(i, text, rl, missing) ==
        CASE i = 1 -> Len(text) < 300
          [] i = 2 -> ~(Contains(rl, "achievement") \/ Contains(rl, "accomplished"))
          [] i = 3 -> ~(Contains(rl, "responsibility") \/ Contains(rl, "responsible"))
          [] i = 4 -> Cardinality({p \in 1..Len(text) : SubSeq(text, p, p) = "\n"}) < 5
          [] i = 5 -> missing # {}
          [] i = 6 -> \A v \in {"developed", "implemented", "led", "managed"} : ~Contains(rl, v)
          [] OTHER -> TRUE

\* The entry msg is the suggestion of rule i.
C9_IsRule(i, msg) ==
    CASE i = 1 -> msg = TooShortMsg
      [] i = 2 -> msg = AchievementsMsg
      [] i = 3 -> msg = ResponsibilitiesMsg
      [] i = 4 -> msg = FormattingMsg
      [] i = 5 -> /\ Len(msg) > Len(MissingMsgPrefix)
                  /\ SubSeq(msg, 1, Len(MissingMsgPrefix)) = MissingMsgPrefix
      [] i = 6 -> msg = ActionVerbsMsg
      [] OTHER -> msg = CertificationsMsg

\* C9: get_suggestions returns the first 6 entries of what rules 1 to 7 give
\* in that order (1: shorter than 300 characters; 2: no achievement or
\* accomplished; 3: no responsibility or responsible; 4: fewer than 5 newlines;
\* 5: some skill missing; 6: none of developed, implemented, led, managed;
\* 7: always), so it has 1 to 6 entries, and the certifications suggestion is
\* its last entry if and only if fewer than 6 of rules 1 to 6 fired.
C9_RuleOrder ==
    ("feedback" \in DOMAIN data) =>
        LET fb      == data.feedback
            missing == JobSkills \ ResumeSkills
            lowered == Lower(data.resume_text)
            fired   == {i \in 1..7 : C9_Fires(i, data.resume_text, lowered, missing)}
            \* the k-th fired rule, in rule order
            nth(k)  == CHOOSE i \in fired : Cardinality({j \in fired : j < i}) = k - 1
        IN  /\ Len(fb) = (IF Cardinality(fired) > 6 THEN 6 ELSE Cardinality(fired))
            /\ Len(fb) \in 1..6
            /\ \A k \in 1..Len(fb) : C9_IsRule(nth(k), fb[k])
            /\ (fb[Len(fb)] = CertificationsMsg) <=> (Cardinality(fired \ {7}) < 6)

C9_Witness ==
    /\ "feedback" \in DOMAIN data
    /\ Len(data.feedback) = 6
    /\ data.feedback[6] = ActionVerbsMsg

\* C10: in a successful analysis with a non-blank job description,
\* missing_skills is the job skills minus the detected resume skills, so it
\* shares nothing with them; with at least one job skill job_match is 100 if
\* and only if missing_skills is empty, and with none missing_skills is empty
\* and job_match is 50.
C10_MissingConsistent ==
    ("missing_skills" \in DOMAIN data) =>
        LET missing == SetOfList(data.missing_skills)
        IN  /\ missing = JobSkills \ ResumeSkills
            /\ missing \cap ResumeSkills = {}
            /\ JobSkills # {} => ((data.job_match = 100) <=> (data.missing_skills = <<>>))
            /\ JobSkills = {} => (data.missing_skills = <<>> /\ data.job_match = 50)

C10_Witness ==
    /\ "missing_skills" \in DOMAIN data
    /\ data.missing_skills = <<>>
    /\ data.job_match = 100

====
